---- MODULE Spec2Model ----
(***************************************************************************)
(* Model of js/dashboard.js (class TimeSeriesDashboard): the CSV parsing   *)
(* pipeline -- parseCSV, detectTimeFormat, processTimeValue and the date   *)
(* helpers they call.                                                      *)
(*                                                                         *)
(* Text is modelled character by character.  A string is a sequence of     *)
(* one-character strings; a CSV text is a sequence of lines and a line is  *)
(* the sequence of its comma-separated raw fields (what split('\n') and    *)
(* split(',') produce).  A JavaScript number is a record                   *)
(*   [nan, neg, int, frac]                                                 *)
(* holding a decimal numeral exactly: int and frac are sequences of digit  *)
(* values, int without leading zeros, frac without trailing zeros.         *)
(***************************************************************************)
EXTENDS Integers, Sequences, FiniteSets, TLC

VARIABLES
    pc,             \* which call the current state is the result of
    timeFormat,     \* this.timeFormat
    csvText,        \* argument of the last parseCSV call
    parsed,         \* outcome of the last parseCSV call (dataset or error)
    timeValue,      \* argument of the last detectTimeFormat call
    detected,       \* outcome of the last detectTimeFormat call
    rawValue,       \* first argument of the last processTimeValue call
    format,         \* second argument of the last processTimeValue call
    processed,      \* outcome of the last processTimeValue call
    event,          \* the handler argument the current state is the result of, by its name
    uploads,        \* the handleFileUpload calls so far: file and progress of each
    parsedData,     \* this.parsedData, with the upload that stored it
    visibleSamples, \* this.visibleSamples
    chart,          \* this.chart, with the upload that rendered it
    sampleToggles,  \* the checkboxes in #sampleToggles, by sample name
    info,           \* the texts of the info section
    sectionsShown,  \* whether the dashboard sections are displayed
    messages,       \* the .message elements in the document
    timers,         \* the message elements whose auto-hide timer is pending
    shown           \* how many message elements were created so far

callVars == <<timeValue, detected, rawValue, format, processed>>

dashboardVars == <<event, uploads, parsedData, visibleSamples, chart, sampleToggles,
                   info, sectionsShown, messages, timers, shown>>

vars == <<pc, timeFormat, csvText, parsed, callVars, dashboardVars>>

-----------------------------------------------------------------------------
(* Bounds of the model.                                                    *)

MaxTokenLen == 15   \* longest generated time token, in characters
MaxRows == 2        \* most data lines in a generated CSV text
MaxSamples == 2     \* most sample columns in a generated header
MaxUploads == 2     \* most handleFileUpload calls in a behaviour

-----------------------------------------------------------------------------
(* Characters and strings.                                                 *)

DigitChars == <<"0", "1", "2", "3", "4", "5", "6", "7", "8", "9">>

Digits == {DigitChars[i] : i \in 1..10}

Whitespace == {" "}

DigitVal(c) == (CHOOSE i \in 1..10 : DigitChars[i] = c) - 1

DigitChar(d) == DigitChars[d + 1]

RECURSIVE Repeat(_, _)
Repeat(c, n) == IF n <= 0 THEN <<>> ELSE <<c>> \o Repeat(c, n - 1)

\* Number of leading characters of s that belong to set.
RECURSIVE RunLength(_, _)
RunLength(s, set) ==
    IF s = <<>> \/ Head(s) \notin set THEN 0
    ELSE 1 + RunLength(Tail(s), set)

Reverse(s) == [i \in 1..Len(s) |-> s[Len(s) + 1 - i]]

Drop(s, n) == SubSeq(s, n + 1, Len(s))

TrimStart(s) == Drop(s, RunLength(s, Whitespace))

TrimEnd(s) == Reverse(TrimStart(Reverse(s)))

\* String.prototype.trim
Trim(s) == TrimEnd(TrimStart(s))

\* /^\d+$/-style test: every character is a decimal digit.
AllDigits(s) == \A i \in 1..Len(s) : s[i] \in Digits

\* String.prototype.substr(start, length), start counted from 0.
Substr(s, start, length) ==
    SubSeq(s, start + 1, IF start + length > Len(s) THEN Len(s) ELSE start + length)

\* String.prototype.padStart(width, '0')
PadStart(s, width) == Repeat("0", width - Len(s)) \o s

-----------------------------------------------------------------------------
(* JavaScript numbers.                                                     *)

NaN == [nan |-> TRUE, neg |-> FALSE, int |-> <<>>, frac |-> <<>>]

StripLeadingZeros(ds) == Drop(ds, RunLength(ds, {0}))

StripTrailingZeros(ds) == Reverse(StripLeadingZeros(Reverse(ds)))

\* The number with sign neg, integer digits i (no leading zero) and fraction
\* digits f (no trailing zero).  Zero carries no sign: 0 and -0 compare equal.
Normal(neg, i, f) ==
    [nan |-> FALSE, neg |-> neg /\ (i # <<>> \/ f # <<>>), int |-> i, frac |-> f]

Number(neg, intDigits, fracDigits) ==
    Normal(neg, StripLeadingZeros(intDigits), StripTrailingZeros(fracDigits))

DigitValues(s) == [i \in 1..Len(s) |-> DigitVal(s[i])]

isNaN(n) == n.nan

\* The numeral of t after its optional sign, and whether the sign is a minus.
Unsigned(t) == IF t # <<>> /\ Head(t) \in {"+", "-"} THEN Tail(t) ELSE t

IsNegative(t) == t # <<>> /\ Head(t) = "-"

\* The longest prefix of s made of decimal digits.
DigitPrefix(s) == SubSeq(s, 1, RunLength(s, Digits))

\* The digits after a leading decimal point, if s starts with one.
FractionDigits(s) == IF s # <<>> /\ Head(s) = "." THEN DigitPrefix(Tail(s)) ELSE <<>>

ParseIntDigits(neg, digits) ==
    IF digits = <<>> THEN NaN ELSE Number(neg, DigitValues(digits), <<>>)

\* Global parseInt(string) with no radix, on strings without a 0x prefix:
\* skip leading white space, read an optional sign and the longest run of
\* decimal digits; NaN when that run is empty.
parseInt(s) ==
    ParseIntDigits(IsNegative(TrimStart(s)), DigitPrefix(Unsigned(TrimStart(s))))

ParseFloatDigits(neg, intPart, fracPart) ==
    IF intPart = <<>> /\ fracPart = <<>> THEN NaN
    ELSE Number(neg, DigitValues(intPart), DigitValues(fracPart))

ParseFloatUnsigned(neg, body) ==
    ParseFloatDigits(neg, DigitPrefix(body),
                     FractionDigits(Drop(body, RunLength(body, Digits))))

\* Global parseFloat(string) on strings without exponent or Infinity:
\* skip leading white space, read an optional sign and the longest prefix
\* of the form digits [. digits] or . digits; NaN when there is none.
parseFloat(s) == ParseFloatUnsigned(IsNegative(TrimStart(s)), Unsigned(TrimStart(s)))

DigitString(ds) == [i \in 1..Len(ds) |-> DigitChar(ds[i])]

\* Number.prototype.toString of an integer-valued number or NaN.
NumberToString(n) ==
    IF n.nan THEN <<"N", "a", "N">>
    ELSE IF n.int = <<>> THEN <<"0">>
    ELSE IF n.neg THEN <<"-">> \o DigitString(n.int)
    ELSE DigitString(n.int)

-----------------------------------------------------------------------------
(* detectTimeFormat                                                        *)

Returned(v) == [threw |-> FALSE, value |-> v, message |-> ""]

Thrown(msg) == [threw |-> TRUE, value |-> "", message |-> msg]

\* /^[01]\d*$/
MatchesZeroOneDigits(s) == s # <<>> /\ Head(s) \in {"0", "1"} /\ AllDigits(s)

\* /^\d{lo,hi}$/
MatchesDigitCount(s, lo, hi) == AllDigits(s) /\ Len(s) >= lo /\ Len(s) <= hi

\* /^\d{lo,}$/
MatchesDigitCountAtLeast(s, lo) == AllDigits(s) /\ Len(s) >= lo

\* detectTimeFormat with the /^\d{13,}$/ test tried before the /^\d{14}$/ test.
DetectTrimmedMillisecondsFirst(trimmedValue) ==
    IF MatchesZeroOneDigits(trimmedValue) /\ Len(trimmedValue) <= 10
        THEN Returned("integer")
    ELSE IF MatchesDigitCountAtLeast(trimmedValue, 13)
        THEN Returned("epoch_milliseconds")
    ELSE IF MatchesDigitCount(trimmedValue, 14, 14)
        THEN Returned("datetime_string")
    ELSE IF MatchesDigitCount(trimmedValue, 10, 12)
        THEN Returned("epoch_seconds")
    ELSE IF ~isNaN(parseFloat(trimmedValue))
        THEN Returned("integer")
    ELSE Thrown("Unrecognized time format")

\* The tests of detectTimeFormat, in its order, on the trimmed value.
DetectTrimmed(trimmedValue) ==
    IF MatchesZeroOneDigits(trimmedValue) /\ Len(trimmedValue) <= 10
        THEN Returned("integer")
    ELSE IF MatchesDigitCount(trimmedValue, 14, 14)
        THEN Returned("datetime_string")
    ELSE IF MatchesDigitCountAtLeast(trimmedValue, 13)
        THEN Returned("epoch_milliseconds")
    ELSE IF MatchesDigitCount(trimmedValue, 10, 12)
        THEN Returned("epoch_seconds")
    ELSE IF ~isNaN(parseFloat(trimmedValue))
        THEN Returned("integer")
    ELSE Thrown("Unrecognized time format")

detectTimeFormat(tv) == DetectTrimmed(Trim(tv))

-----------------------------------------------------------------------------
(* Arithmetic on numerals.  Integer values are kept as digit sequences     *)
(* because millisecond time stamps exceed the range of machine integers.   *)

RECURSIVE IntDigits(_)
IntDigits(n) == IF n = 0 THEN <<>> ELSE Append(IntDigits(n \div 10), n % 10)

\* The JavaScript number of a model integer.
FromInt(n) == Normal(n < 0, IntDigits(IF n < 0 THEN -n ELSE n), <<>>)

RECURSIVE DigitsValue(_)
DigitsValue(ds) ==
    IF ds = <<>> THEN 0 ELSE DigitsValue(SubSeq(ds, 1, Len(ds) - 1)) * 10 + ds[Len(ds)]

\* The model integer of a small integer-valued number.
ToInt(n) == IF n.neg THEN -DigitsValue(n.int) ELSE DigitsValue(n.int)

\* rev * k + carry; rev and the result are least-significant digit first.
RECURSIVE MulCarry(_, _, _)
MulCarry(rev, k, carry) ==
    IF rev = <<>> THEN Reverse(IntDigits(carry))
    ELSE <<(Head(rev) * k + carry) % 10>>
         \o MulCarry(Tail(rev), k, (Head(rev) * k + carry) \div 10)

\* ds * k + a for a digit sequence ds and 0 <= k, a <= 10^8
MulAdd(ds, k, a) == StripLeadingZeros(Reverse(MulCarry(Reverse(ds), k, a)))

\* Long division of a digit sequence by k: <<quotient digits, remainder>>.
RECURSIVE DivStep(_, _, _, _)
DivStep(ds, k, q, r) ==
    IF ds = <<>> THEN <<StripLeadingZeros(q), r>>
    ELSE DivStep(Tail(ds), k, Append(q, (r * 10 + Head(ds)) \div k), (r * 10 + Head(ds)) % k)

BigDivMod(ds, k) == DivStep(ds, k, <<>>, 0)

\* a <= b for digit sequences of equal length
RECURSIVE LexLeq(_, _)
LexLeq(a, b) ==
    IF a = <<>> THEN TRUE
    ELSE IF Head(a) # Head(b) THEN Head(a) < Head(b)
    ELSE LexLeq(Tail(a), Tail(b))

\* a <= b for digit sequences without leading zeros
BigLeq(a, b) == Len(a) < Len(b) \/ (Len(a) = Len(b) /\ LexLeq(a, b))

\* n * k for an integer-valued number n (NaN stays NaN)
Times(n, k) == IF n.nan THEN NaN ELSE Normal(n.neg, MulAdd(n.int, k, 0), <<>>)

-----------------------------------------------------------------------------
(* The Date object.  A Date holds its time value: milliseconds since the   *)
(* epoch, or NaN for an Invalid Date.  Local time is taken to be UTC.      *)

DaysFromEra(era, yoe, doy) ==
    era * 146097 + yoe * 365 + yoe \div 4 - yoe \div 100 + doy - 719468

DaysFromMarchYear(yy, mp, d) ==
    DaysFromEra(yy \div 400, yy % 400, (153 * mp + 2) \div 5 + d - 1)

\* Day number (1970-01-01 is day 0) of day d of month m (1..12) of year y;
\* d may lie outside the month.
DaysFromCivil(y, m, d) == DaysFromMarchYear(IF m <= 2 THEN y - 1 ELSE y, (m + 9) % 12, d)

CivilFromMonth(y, doy, mp) ==
    [year |-> IF mp < 10 THEN y ELSE y + 1,
     month |-> IF mp < 10 THEN mp + 3 ELSE mp - 9,
     day |-> doy - (153 * mp + 2) \div 5 + 1]

CivilFromDayOfYear(y, doy) == CivilFromMonth(y, doy, (5 * doy + 2) \div 153)

CivilFromYearOfEra(era, doe, yoe) ==
    CivilFromDayOfYear(yoe + era * 400, doe - (365 * yoe + yoe \div 4 - yoe \div 100))

CivilFromDayOfEra(era, doe) ==
    CivilFromYearOfEra(era, doe,
        (doe - doe \div 1460 + doe \div 36524 - doe \div 146096) \div 365)

\* The calendar date of a day number: [year, month (1..12), day].
CivilFromDays(z) == CivilFromDayOfEra((z + 719468) \div 146097, (z + 719468) % 146097)

\* The time value of day number `days` plus `ms` milliseconds, 0 <= ms < 86400000.
TimeFromDays(days, ms) ==
    IF days >= 0 THEN Normal(FALSE, MulAdd(IntDigits(days), 86400000, ms), <<>>)
    ELSE Normal(TRUE, MulAdd(IntDigits(-days - 1), 86400000, 86400000 - ms), <<>>)

\* The largest time value: 8.64e15 ms.
MaxTimeDigits == <<8, 6, 4>> \o [i \in 1..13 |-> 0]

\* TimeClip: a time value beyond +-8.64e15 ms is NaN.
TimeClip(t) == IF t.nan \/ ~BigLeq(t.int, MaxTimeDigits) THEN NaN ELSE t

\* new Date(value)
NewDateFromTime(value) == [time |-> TimeClip(value)]

\* MakeDay and MakeTime: months beyond 0..11 carry into the year, days and
\* seconds beyond their range carry into the following days.
MakeDate(y, month, day, secs) ==
    [time |-> TimeClip(TimeFromDays(
        DaysFromCivil(y + (month \div 12), (month % 12) + 1, 1) + day - 1 + (secs \div 86400),
        (secs % 86400) * 1000))]

\* A year 0..99 given to the Date constructor means 1900 + year.
FullYear(y) == IF y >= 0 /\ y <= 99 THEN 1900 + y ELSE y

\* new Date(year, month, day, hours, minutes, seconds): month counts from 0
\* (0 = January).
NewDateFromFields(year, month, day, hours, minutes, seconds) ==
    IF year.nan \/ month.nan \/ day.nan \/ hours.nan \/ minutes.nan \/ seconds.nan
    THEN [time |-> NaN]
    ELSE MakeDate(FullYear(ToInt(year)), ToInt(month), ToInt(day),
                  ToInt(hours) * 3600 + ToInt(minutes) * 60 + ToInt(seconds))

\* The methods a Date object has.
DatePrototype ==
    {"getTime", "getFullYear", "getMonth", "getDate", "getHours", "getMinutes",
     "getSeconds", "getMilliseconds"}

\* <<day number, millisecond within the day>> from the sign of a time value
\* and its magnitude divided by the milliseconds of a day.
SignedDayAndMs(neg, q, r) ==
    IF ~neg THEN <<q, r>>
    ELSE IF r = 0 THEN <<-q, 0>>
    ELSE <<-q - 1, 86400000 - r>>

DivModToDayAndMs(neg, qr) == SignedDayAndMs(neg, DigitsValue(qr[1]), qr[2])

DayAndMs(date) == DivModToDayAndMs(date.time.neg, BigDivMod(date.time.int, 86400000))

getTime(date) == date.time

getFullYear(date) ==
    IF date.time.nan THEN NaN ELSE FromInt(CivilFromDays(DayAndMs(date)[1]).year)

\* 0 = January ... 11 = December
getMonth(date) ==
    IF date.time.nan THEN NaN ELSE FromInt(CivilFromDays(DayAndMs(date)[1]).month - 1)

getDate(date) ==
    IF date.time.nan THEN NaN ELSE FromInt(CivilFromDays(DayAndMs(date)[1]).day)

getHours(date) ==
    IF date.time.nan THEN NaN ELSE FromInt(DayAndMs(date)[2] \div 3600000)

getMinutes(date) ==
    IF date.time.nan THEN NaN ELSE FromInt((DayAndMs(date)[2] \div 60000) % 60)

getSeconds(date) ==
    IF date.time.nan THEN NaN ELSE FromInt((DayAndMs(date)[2] \div 1000) % 60)

getMilliseconds(date) ==
    IF date.time.nan THEN NaN ELSE FromInt(DayAndMs(date)[2] % 1000)

-----------------------------------------------------------------------------
(* Time-value conversion.                                                  *)

\* Calling date.method(): a TypeError when the object has no such method.
DateCall(date, method) ==
    IF method \notin DatePrototype THEN Thrown("TypeError: not a function")
    ELSE Returned(getTime(date))

parseDateTimeString(dateTimeStr) ==
    IF Len(dateTimeStr) # 14
    THEN Thrown("DateTime string must be 14 characters (YYYYMMDDHHMMSS)")
    ELSE Returned(NewDateFromFields(
            parseInt(Substr(dateTimeStr, 0, 4)),    \* year
            parseInt(Substr(dateTimeStr, 4, 2)),    \* month
            parseInt(Substr(dateTimeStr, 6, 2)),    \* day
            parseInt(Substr(dateTimeStr, 8, 2)),    \* hour
            parseInt(Substr(dateTimeStr, 10, 2)),   \* minute
            parseInt(Substr(dateTimeStr, 12, 2))))  \* second

\* `${year}-${month}-${day} ${hours}:${minutes}:${seconds}`
DateTimeText(date) ==
    LET year == NumberToString(getFullYear(date))
        month == PadStart(NumberToString(getMonth(date)), 2)
        day == PadStart(NumberToString(getDate(date)), 2)
        hours == PadStart(NumberToString(getHours(date)), 2)
        minutes == PadStart(NumberToString(getMinutes(date)), 2)
        seconds == PadStart(NumberToString(getSeconds(date)), 2)
    IN  year \o <<"-">> \o month \o <<"-">> \o day \o <<" ">>
        \o hours \o <<":">> \o minutes \o <<":">> \o seconds

formatDateTime(date, withMillis) ==
    IF withMillis
    THEN DateTimeText(date) \o <<".">> \o PadStart(NumberToString(getMilliseconds(date)), 3)
    ELSE DateTimeText(date)

\* The functions an unqualified call in dashboard.js can resolve to: the
\* script declares none at top level, so only built-in globals.
GlobalFunctions == {"parseInt", "parseFloat", "isNaN", "setTimeout"}

\* The value of a call that returns nothing.
Undefined == <<"undefined">>

\* The body calls formatDateTime(date, true) as a free function, not as
\* this.formatDateTime, and returns nothing.
formatDateTimeWithMs(date) ==
    IF "formatDateTime" \notin GlobalFunctions
    THEN Thrown("ReferenceError: formatDateTime is not defined")
    ELSE Returned(Undefined)

\* processTimeValue returning null
Null == [isNull |-> TRUE, numeric |-> NaN, date |-> <<>>, display |-> <<>>, raw |-> <<>>]

\* processTimeValue returning {numeric, date, display, raw}; date is <<>>
\* when the object has no date property.
TimeRecord(numeric, date, display, raw) ==
    [isNull |-> FALSE, numeric |-> numeric, date |-> date, display |-> display, raw |-> raw]

\* case 'integer'
IntegerTime(intValue, rv) == TimeRecord(intValue, <<>>, NumberToString(intValue), rv)

\* case 'epoch_seconds': the object literal evaluates dateFromSeconds.time()
\* first; an exception there is caught and null returned.
EpochSecondsRecord(numeric, dateFromSeconds, rv) ==
    IF numeric.threw THEN Null
    ELSE TimeRecord(numeric.value, <<dateFromSeconds>>,
                    formatDateTime(dateFromSeconds, FALSE), rv)

EpochSecondsTime(dateFromSeconds, rv) ==
    EpochSecondsRecord(DateCall(dateFromSeconds, "time"), dateFromSeconds, rv)

\* case 'epoch_milliseconds': the object literal evaluates getTime() and
\* then this.formatDateTimeWithMs(dateFromMs).
EpochMillisecondsRecord(numeric, display, dateFromMs, rv) ==
    IF numeric.threw \/ display.threw THEN Null
    ELSE TimeRecord(numeric.value, <<dateFromMs>>, display.value, rv)

EpochMillisecondsTime(dateFromMs, rv) ==
    EpochMillisecondsRecord(DateCall(dateFromMs, "getTime"),
                            formatDateTimeWithMs(dateFromMs), dateFromMs, rv)

\* case 'datetime_string': parseDateTimeString may throw.
DateTimeStringTime(dateFromString, rv) ==
    IF dateFromString.threw THEN Null
    ELSE TimeRecord(getTime(dateFromString.value), <<dateFromString.value>>,
                    formatDateTime(dateFromString.value, FALSE), rv)

\* The switch of processTimeValue on the trimmed value.
ProcessTrimmed(trimmedValue, rv, fmt) ==
    CASE fmt = "integer" -> IntegerTime(parseInt(trimmedValue), rv)
      [] fmt = "epoch_seconds" ->
            EpochSecondsTime(NewDateFromTime(Times(parseInt(trimmedValue), 1000)), rv)
      [] fmt = "epoch_milliseconds" ->
            EpochMillisecondsTime(NewDateFromTime(parseInt(trimmedValue)), rv)
      [] fmt = "datetime_string" ->
            DateTimeStringTime(parseDateTimeString(trimmedValue), rv)
      [] OTHER -> Null

processTimeValue(rv, fmt) == ProcessTrimmed(Trim(rv), rv, fmt)

-----------------------------------------------------------------------------
(* parseCSV                                                                *)

\* csvText.trim(), on a text held as lines of comma-separated fields: white
\* space at either end of the text goes, and with it every leading or
\* trailing line that holds nothing else.
RECURSIVE TrimTextStart(_)
TrimTextStart(lines) ==
    IF Len(lines) > 1 /\ Len(lines[1]) = 1 /\ TrimStart(lines[1][1]) = <<>>
    THEN TrimTextStart(Tail(lines))
    ELSE <<[lines[1] EXCEPT ![1] = TrimStart(@)]>> \o Tail(lines)

\* The text read backwards: lines, fields and characters in reverse order.
MirrorText(lines) ==
    Reverse([i \in 1..Len(lines) |->
                Reverse([j \in 1..Len(lines[i]) |-> Reverse(lines[i][j])])])

TrimTextEnd(lines) == MirrorText(TrimTextStart(MirrorText(lines)))

TrimText(lines) == TrimTextEnd(TrimTextStart(lines))

\* line.split(',').map(val => val.trim())
SplitTrim(line) == [j \in 1..Len(line) |-> Trim(line[j])]

Range(seq) == {seq[i] : i \in 1..Len(seq)}

\* A slot of a sample series: a number, or null.
NullCell == [isNull |-> TRUE, value |-> NaN]

ValueCell(v) == [isNull |-> FALSE, value |-> v]

\* The slot of a cell when the parsed value is stored as it is, NaN included.
SampleSlotKeepingNaN(value) == ValueCell(value)

\* isNaN(value) ? null : value
SampleSlot(value) == IF isNaN(value) THEN NullCell ELSE ValueCell(value)

\* The inner loop over the sample cells of one accepted row, from column j on:
\* each cell is pushed onto the array stored under its column's name.
RECURSIVE PushSamples(_, _, _, _)
PushSamples(sampleData, sampleNames, values, j) ==
    IF j > Len(values) THEN sampleData
    ELSE PushSamples(
            [sampleData EXCEPT ![sampleNames[j - 1]] = Append(@, SampleSlot(parseFloat(values[j])))],
            sampleNames, values, j + 1)

\* The arrays the row loop fills, before the first row.
EmptyRows(sampleNames) ==
    [timePoints |-> <<>>,
     processedTimePoints |-> <<>>,
     sampleData |-> [name \in Range(sampleNames) |-> <<>>]]

\* The row loop when a row whose time value is null still has its sample
\* cells pushed.
PushRowSamplesAlways(processedTime, values, header, acc) ==
    IF processedTime.isNull
        THEN [acc EXCEPT !.sampleData = PushSamples(acc.sampleData, Tail(header), values, 2)]
    ELSE [timePoints |-> Append(acc.timePoints, processedTime.numeric),
          processedTimePoints |-> Append(acc.processedTimePoints, processedTime),
          sampleData |-> PushSamples(acc.sampleData, Tail(header), values, 2)]

\* The row loop when an accepted row is put in front of the rows before it.
PushRowInFront(processedTime, values, header, acc) ==
    IF processedTime.isNull THEN acc
    ELSE [timePoints |-> <<processedTime.numeric>> \o acc.timePoints,
          processedTimePoints |-> <<processedTime>> \o acc.processedTimePoints,
          sampleData |-> PushSamples(acc.sampleData, Tail(header), values, 2)]

\* A row whose time value was processed: skipped when processedTime is null.
PushRow(processedTime, values, header, acc) ==
    IF processedTime.isNull THEN acc
    ELSE [timePoints |-> Append(acc.timePoints, processedTime.numeric),
          processedTimePoints |-> Append(acc.processedTimePoints, processedTime),
          sampleData |-> PushSamples(acc.sampleData, Tail(header), values, 2)]

\* The row loop when each row's time value is converted under the format
\* detected from that row's own token, where it has one.
ProcessRowRedetecting(values, header, fmt, acc) ==
    IF Len(values) # Len(header) THEN acc
    ELSE IF detectTimeFormat(values[1]).threw
    THEN PushRow(processTimeValue(values[1], fmt), values, header, acc)
    ELSE PushRow(processTimeValue(values[1], detectTimeFormat(values[1]).value),
                 values, header, acc)

\* One pass of the row loop: skipped when the field count is not the header's.
ProcessRow(values, header, fmt, acc) ==
    IF Len(values) # Len(header) THEN acc
    ELSE PushRow(processTimeValue(values[1], fmt), values, header, acc)

\* The loop over the data lines, from line i on (lines are counted from 1
\* here, so the header is line 1 and the first data line is line 2).
RECURSIVE ProcessRows(_, _, _, _, _)
ProcessRows(lines, header, fmt, i, acc) ==
    IF i > Len(lines) THEN acc
    ELSE ProcessRows(lines, header, fmt, i + 1,
                     ProcessRow(SplitTrim(lines[i]), header, fmt, acc))

NoDataset ==
    [timeColumnName |-> <<>>, samples |-> <<>>, timePoints |-> <<>>,
     processedTimePoints |-> <<>>, sampleData |-> <<>>, timeFormat |-> "null"]

\* parseCSV throwing: this.timeFormat is left as tf.
ParseThrew(msg, tf) == [threw |-> TRUE, message |-> msg, data |-> NoDataset, timeFormat |-> tf]

\* After the row loop: the check for an empty result, and the return.
ParseReturn(header, fmt, rows) ==
    IF Len(rows.timePoints) = 0 THEN ParseThrew("No valid data rows found", fmt)
    ELSE [threw |-> FALSE, message |-> "",
          data |-> [timeColumnName |-> header[1],
                    samples |-> Tail(header),
                    timePoints |-> rows.timePoints,
                    processedTimePoints |-> rows.processedTimePoints,
                    sampleData |-> rows.sampleData,
                    timeFormat |-> fmt],
          timeFormat |-> fmt]

\* parseCSV when a format left in this.timeFormat by an earlier parse is kept
\* in place of the one detected.
ParseDetectedKeepingFormat(lines, header, detection, thisTimeFormat) ==
    IF detection.threw THEN ParseThrew(detection.message, thisTimeFormat)
    ELSE IF thisTimeFormat # "null"
    THEN ParseReturn(header, thisTimeFormat,
            ProcessRows(lines, header, thisTimeFormat, 2, EmptyRows(Tail(header))))
    ELSE ParseReturn(header, detection.value,
            ProcessRows(lines, header, detection.value, 2, EmptyRows(Tail(header))))

\* After detection: this.timeFormat is assigned only when detection returned.
ParseDetected(lines, header, detection, thisTimeFormat) ==
    IF detection.threw THEN ParseThrew(detection.message, thisTimeFormat)
    ELSE ParseReturn(header, detection.value,
            ProcessRows(lines, header, detection.value, 2, EmptyRows(Tail(header))))

\* parseCSV with detection on the first data line made before the check for
\* sample columns.
ParseHeaderDetectingFirst(lines, header, thisTimeFormat) ==
    IF detectTimeFormat(SplitTrim(lines[2])[1]).threw
    THEN ParseThrew(detectTimeFormat(SplitTrim(lines[2])[1]).message, thisTimeFormat)
    ELSE IF Len(Tail(header)) = 0
    THEN ParseThrew("No sample columns found in CSV",
                    detectTimeFormat(SplitTrim(lines[2])[1]).value)
    ELSE ParseDetected(lines, header, detectTimeFormat(SplitTrim(lines[2])[1]),
                       thisTimeFormat)

\* After the header is split: the check for sample columns, and detection
\* on field 0 of the first data line.
ParseHeader(lines, header, thisTimeFormat) ==
    IF Len(Tail(header)) = 0
    THEN ParseThrew("No sample columns found in CSV", thisTimeFormat)
    ELSE ParseDetected(lines, header, detectTimeFormat(SplitTrim(lines[2])[1]),
                       thisTimeFormat)

\* parseCSV with the check for sample columns made before the line count.
ParseLinesHeaderFirst(lines, thisTimeFormat) ==
    IF Len(Tail(SplitTrim(lines[1]))) = 0
    THEN ParseThrew("No sample columns found in CSV", thisTimeFormat)
    ELSE IF Len(lines) < 2
    THEN ParseThrew("CSV file must have at least 2 rows (header + data)", thisTimeFormat)
    ELSE ParseHeader(lines, SplitTrim(lines[1]), thisTimeFormat)

\* After the text is trimmed and split into lines: the line count check.
ParseLines(lines, thisTimeFormat) ==
    IF Len(lines) < 2
    THEN ParseThrew("CSV file must have at least 2 rows (header + data)", thisTimeFormat)
    ELSE ParseHeader(lines, SplitTrim(lines[1]), thisTimeFormat)

\* The outcome of this.parseCSV(text) when this.timeFormat is thisTimeFormat:
\* the dataset returned or the error thrown, and this.timeFormat afterwards.
parseCSV(text, thisTimeFormat) == ParseLines(TrimText(text), thisTimeFormat)

-----------------------------------------------------------------------------
(* Inputs.                                                                 *)

TimeFormats == {"integer", "epoch_seconds", "epoch_milliseconds", "datetime_string"}

\* The tokens of the README's examples.
IntegerExample == <<"0">>

EpochSecondsExample == <<"1", "7", "6", "0", "7", "8", "4", "1", "5", "0">>

EpochSecondsLeading2 == <<"2", "0", "0", "0", "0", "0", "0", "0", "0", "0">>

EpochMillisecondsExample ==
    <<"1", "7", "6", "0", "7", "8", "4", "1", "5", "0", "2", "3", "4">>

DateTimeStringExample ==
    <<"2", "0", "2", "5", "1", "0", "1", "8", "1", "3", "4", "5", "5", "0">>

\* A token of len characters: lead, then fill repeated, then tail.
Token(lead, fill, tail, len) ==
    IF len = 1 THEN <<lead>> ELSE <<lead>> \o Repeat(fill, len - 2) \o <<tail>>

Leads == {"0", "1", "2", "9", "-", ".", "a", " "}

Fills == {"0", "7"}

Tails == {"0", "4", "a", " "}

\* The time tokens detectTimeFormat and processTimeValue are applied to.
Tokens ==
    {Token(l, f, t, n) : l \in Leads, f \in Fills, t \in Tails, n \in 1..MaxTokenLen}
    \cup {<<>>, IntegerExample, EpochSecondsExample, EpochSecondsLeading2,
          EpochMillisecondsExample, DateTimeStringExample}

\* The time tokens of generated CSV texts.
FileTimeTokens ==
    {<<"1">>, IntegerExample, <<"x">>, <<>>, EpochSecondsLeading2,
     EpochMillisecondsExample, DateTimeStringExample}

\* A numeric cell of sample column j, with a leading blank: " j.5".
GoodCell(j) == <<" ", DigitChar(j), ".", "5">>

BadCells == {<<"a", "b", "c">>, <<>>}

SampleName(j) == <<"s", DigitChar(j)>>

\* A header line with n sample columns, all named alike when dup.
HeaderLine(n, dup) ==
    <<<<"T", " ">>>> \o [j \in 1..n |-> IF dup THEN SampleName(1) ELSE SampleName(j)]

\* A line with nothing on it.
BlankLine == <<<<>>>>

\* The first lines of generated texts: headers of 0..MaxSamples distinct
\* sample names, a header repeating one name, and a blank line.
HeaderLines ==
    {HeaderLine(n, FALSE) : n \in 0..MaxSamples} \cup {HeaderLine(MaxSamples, TRUE)}
    \cup {BlankLine}

\* The sample cells of a row of n samples: all numeric, or one cell bad.
CellPatterns(n) ==
    {[j \in 1..n |-> GoodCell(j)]}
    \cup {[j \in 1..n |-> IF j = k THEN bad ELSE GoodCell(j)] : k \in 1..n, bad \in BadCells}

\* The data lines under a header of n samples: of the header's field count
\* with each time token and numeric cells, or with a plain time token and one
\* cell bad; one field short with each time token; one field long.
PlainTimeToken == <<"1">>

DataLines(n) ==
    {<<t>> \o [j \in 1..n |-> GoodCell(j)] : t \in FileTimeTokens}
    \cup {<<PlainTimeToken>> \o cells : cells \in CellPatterns(n)}
    \cup (IF n >= 1 THEN {<<t>> \o [j \in 1..(n - 1) |-> GoodCell(j)] : t \in FileTimeTokens}
          ELSE {})
    \cup {<<PlainTimeToken>> \o [j \in 1..(n + 1) |-> GoodCell(j)]}

\* A CSV text: a header line, then the data lines.
Text(headerLine, rows) == <<headerLine>> \o rows

-----------------------------------------------------------------------------
(* The calls.  A behaviour is one call of one of the three functions on an *)
(* input drawn from the sets above; this.timeFormat starts as the          *)
(* constructor leaves it.                                                  *)

NotCalled == Thrown("not called")

\* The fields of a new TimeSeriesDashboard, and the page it is made on.
Constructed ==
    /\ timeFormat = "null"
    /\ parsedData = [from |-> 0, data |-> NoDataset]
    /\ chart = [from |-> 0, datasets |-> <<>>]
    /\ visibleSamples = {}
    /\ sampleToggles = <<>>
    /\ info = <<>>
    /\ sectionsShown = FALSE
    /\ messages = {}
    /\ timers = {}
    /\ shown = 0
    /\ uploads = <<>>
    /\ event = [none |-> TRUE]

NoCalls ==
    /\ parsed = ParseThrew("not called", "null")
    /\ detected = NotCalled
    /\ processed = Null

InitDetect ==
    /\ pc = "call detectTimeFormat"
    /\ timeValue \in Tokens
    /\ csvText = <<>> /\ rawValue = <<>> /\ format = "null"

InitProcess ==
    /\ pc = "call processTimeValue"
    /\ rawValue \in Tokens
    /\ format \in TimeFormats \cup {"null"}
    /\ csvText = <<>> /\ timeValue = <<>>

InitParse ==
    /\ pc = "call parseCSV"
    /\ \E headerLine \in HeaderLines : \E k \in 0..MaxRows :
        \E rows \in [1..k -> DataLines(Len(headerLine) - 1)] :
            csvText = Text(headerLine, rows)
    /\ timeValue = <<>> /\ rawValue = <<>> /\ format = "null"

Init ==
    /\ Constructed
    /\ NoCalls
    /\ (InitDetect \/ InitProcess \/ InitParse)

DetectTimeFormat ==
    /\ pc = "call detectTimeFormat"
    /\ detected' = detectTimeFormat(timeValue)
    /\ pc' = "detectTimeFormat done"
    /\ UNCHANGED <<timeFormat, csvText, parsed, timeValue, rawValue, format, processed>>
    /\ UNCHANGED dashboardVars

ProcessTimeValue ==
    /\ pc = "call processTimeValue"
    /\ processed' = processTimeValue(rawValue, format)
    /\ pc' = "processTimeValue done"
    /\ UNCHANGED <<timeFormat, csvText, parsed, timeValue, detected, rawValue, format>>
    /\ UNCHANGED dashboardVars

ParseCSV ==
    /\ pc = "call parseCSV"
    /\ parsed' = parseCSV(csvText, timeFormat)
    /\ timeFormat' = parsed'.timeFormat
    /\ pc' = "parseCSV done"
    /\ UNCHANGED <<csvText, callVars, dashboardVars>>

Next == DetectTimeFormat \/ ProcessTimeValue \/ ParseCSV

Spec == Init /\ [][Next]_vars

-----------------------------------------------------------------------------------------------------------------------------------------------------
(* The dashboard: uploads, the reads they wait for, rendering, toggles and *)
(* messages.  Each handler runs to completion; handleFileUpload is two      *)
(* steps, up to its await and from the settling of the read to its end.    *)

\* showMessage(text, type): the element it creates.
MessageElement(id, text, type) == [id |-> id, type |-> type, text |-> text]

\* showMessage when the messages already in the document are left there.
showMessageKeepingExisting(text, type) ==
    /\ shown' = shown + 1
    /\ messages' = messages \cup {MessageElement(shown + 1, text, type)}
    /\ timers' = IF type = "success" THEN timers \cup {shown + 1} ELSE timers

\* showMessage(text, type): existing messages are removed, the new one is
\* inserted, and a success message gets an auto-hide timer.
showMessage(text, type) ==
    /\ shown' = shown + 1
    /\ messages' = {MessageElement(shown + 1, text, type)}
    /\ timers' = IF type = "success" THEN timers \cup {shown + 1} ELSE timers

getXAxisTitle(fmt) ==
    IF fmt = "integer" THEN "Time (integer values)"
    ELSE IF fmt \in {"epoch_seconds", "epoch_milliseconds", "datetime_string"}
        THEN "Time (HH:MM:SS)"
    ELSE "Time"

\* One dataset of the chart: the points of a sample, hidden when the sample
\* is not visible.
ChartDataset(data, sampleName, visible) ==
    [label |-> sampleName,
     hidden |-> sampleName \notin visible,
     data |-> [i \in 1..Len(data.timePoints) |->
                  [x |-> data.timePoints[i], y |-> data.sampleData[sampleName][i]]]]

NoChart == [from |-> 0, datasets |-> <<>>]

\* renderChart when an existing chart is kept as it is.
renderChartKeepingExisting(existing, data, visible, upload) ==
    IF existing # NoChart THEN existing
    ELSE [from |-> upload,
          xAxisTitle |-> getXAxisTitle(data.timeFormat),
          datasets |-> [i \in 1..Len(data.samples) |->
                           ChartDataset(data, data.samples[i], visible)]]

\* renderChart: the existing chart is destroyed and a new one made from
\* this.parsedData and this.visibleSamples.
renderChart(existing, data, visible, upload) ==
    [from |-> upload,
     xAxisTitle |-> getXAxisTitle(data.timeFormat),
     datasets |-> [i \in 1..Len(data.samples) |->
                      ChartDataset(data, data.samples[i], visible)]]

\* updateChart when it hides the datasets of visible samples.
updateChartInverted(ch, data, visible) ==
    IF ch = NoChart THEN ch
    ELSE [ch EXCEPT !.datasets =
            [i \in 1..Len(@) |-> [@[i] EXCEPT !.hidden = data.samples[i] \in visible]]]

\* updateChart: each dataset is hidden when its sample is not visible.
updateChart(ch, data, visible) ==
    IF ch = NoChart THEN ch
    ELSE [ch EXCEPT !.datasets =
            [i \in 1..Len(@) |-> [@[i] EXCEPT !.hidden = data.samples[i] \notin visible]]]

updateInfoSection(data) ==
    [sampleCount |-> Len(data.samples),
     dataPointCount |-> Len(data.timePoints),
     timeRange |-> <<data.processedTimePoints[1].display,
                     data.processedTimePoints[Len(data.processedTimePoints)].display>>]

\* renderDashboard, for the dataset just stored by the given upload.
renderDashboard(data, upload) ==
    /\ sectionsShown' = TRUE
    /\ visibleSamples' = Range(data.samples)
    /\ sampleToggles' = data.samples
    /\ chart' = renderChart(chart, data, Range(data.samples), upload)
    /\ info' = updateInfoSection(data)

\* this.parsedData after `this.parsedData = this.parseCSV(text)` when a
\* parse that throws clears it.
StoreParsedClearing(before, outcome, upload) ==
    IF outcome.threw THEN [from |-> 0, data |-> NoDataset]
    ELSE [from |-> upload, data |-> outcome.data]

\* this.parsedData after `this.parsedData = this.parseCSV(text)`: assigned
\* only when parseCSV returns.
StoreParsed(before, outcome, upload) ==
    IF outcome.threw THEN before ELSE [from |-> upload, data |-> outcome.data]

Settle(upload, status) == uploads' = [uploads EXCEPT ![upload].status = status]

\* The catch block of handleFileUpload.
CatchError(upload, message) ==
    /\ showMessage(<<"Error loading file: ", message>>, "error")
    /\ Settle(upload, "failed")

\* handleFileUpload from the value of parseCSV to its end.
AfterParse(upload, outcome) ==
    /\ parsed' = outcome
    /\ timeFormat' = outcome.timeFormat
    /\ parsedData' = StoreParsed(parsedData, outcome, upload)
    /\ IF outcome.threw
       THEN /\ CatchError(upload, outcome.message)
            /\ UNCHANGED <<visibleSamples, chart, sampleToggles, info, sectionsShown>>
       ELSE IF Len(outcome.data.samples) > 0
       THEN /\ showMessage(<<"Successfully loaded ", Len(outcome.data.samples),
                             " samples with ", Len(outcome.data.timePoints),
                             " data points">>, "success")
            /\ Settle(upload, "loaded")
            /\ renderDashboard(outcome.data, upload)
       ELSE /\ CatchError(upload, "No valid data found in CSV file")
            /\ UNCHANGED <<visibleSamples, chart, sampleToggles, info, sectionsShown>>

\* The files offered to the dashboard, each by its text.
TwoSamplesFile ==
    Text(HeaderLine(2, FALSE),
         << <<PlainTimeToken, GoodCell(1), GoodCell(2)>>,
            <<IntegerExample, <<>>, GoodCell(2)>> >>)

OneSampleFile ==
    Text(HeaderLine(1, FALSE), << <<DateTimeStringExample, GoodCell(1)>> >>)

MillisecondsFile ==
    Text(HeaderLine(1, FALSE), << <<EpochMillisecondsExample, GoodCell(1)>> >>)

UnrecognizedFile == Text(HeaderLine(1, FALSE), << <<<<"x">>, GoodCell(1)>> >>)

HeaderOnlyFile == Text(HeaderLine(1, FALSE), <<>>)

NoSamplesFile == Text(HeaderLine(0, FALSE), << <<PlainTimeToken>> >>)

Files ==
    {TwoSamplesFile, OneSampleFile, MillisecondsFile,
     UnrecognizedFile, HeaderOnlyFile, NoSamplesFile}

Reading == {id \in 1..Len(uploads) : uploads[id].status = "reading"}

InitDashboard ==
    /\ Constructed
    /\ NoCalls
    /\ pc = "constructed"
    /\ csvText = <<>> /\ timeValue = <<>> /\ rawValue = <<>> /\ format = "null"

\* A file is chosen or dropped: handleFileUpload(file) up to its await.
HandleFileUpload(file) ==
    /\ Len(uploads) < MaxUploads
    /\ uploads' = Append(uploads, [file |-> file, status |-> "reading"])
    /\ showMessage(<<"Loading CSV file...">>, "info")
    /\ pc' = "handleFileUpload"
    /\ event' = [upload |-> Len(uploads) + 1]
    /\ UNCHANGED <<timeFormat, csvText, parsed, callVars, parsedData, visibleSamples,
                   chart, sampleToggles, info, sectionsShown>>

\* reader.onload: the read resolves and handleFileUpload runs to its end.
ReadLoaded(upload) ==
    /\ upload \in Reading
    /\ pc' = "reader.onload"
    /\ event' = [upload |-> upload]
    /\ csvText' = uploads[upload].file
    /\ AfterParse(upload, parseCSV(uploads[upload].file, timeFormat))
    /\ UNCHANGED callVars

\* reader.onerror: the read rejects and handleFileUpload ends in its catch.
ReadError(upload) ==
    /\ upload \in Reading
    /\ CatchError(upload, "Failed to read file")
    /\ pc' = "reader.onerror"
    /\ event' = [upload |-> upload]
    /\ UNCHANGED <<timeFormat, csvText, parsed, callVars, parsedData, visibleSamples,
                   chart, sampleToggles, info, sectionsShown>>

\* A checkbox of #sampleToggles changes: toggleSample(sampleName).
ToggleSample(sampleName) ==
    /\ sampleName \in Range(sampleToggles)
    /\ visibleSamples' = IF sampleName \in visibleSamples
                         THEN visibleSamples \ {sampleName}
                         ELSE visibleSamples \cup {sampleName}
    /\ chart' = updateChart(chart, parsedData.data, visibleSamples')
    /\ pc' = "toggleSample"
    /\ event' = [sampleName |-> sampleName]
    /\ UNCHANGED <<timeFormat, csvText, parsed, callVars, uploads, parsedData,
                   sampleToggles, info, sectionsShown, messages, timers, shown>>

\* The auto-hide timer of a success message fires: the element is removed
\* if it is still in the document.
MessageTimeout(id) ==
    /\ id \in timers
    /\ timers' = timers \ {id}
    /\ messages' = {m \in messages : m.id # id}
    /\ pc' = "setTimeout callback"
    /\ event' = [timer |-> id]
    /\ UNCHANGED <<timeFormat, csvText, parsed, callVars, uploads, parsedData,
                   visibleSamples, chart, sampleToggles, info, sectionsShown, shown>>

NextDashboard ==
    \/ \E file \in Files : HandleFileUpload(file)
    \/ \E upload \in 1..MaxUploads : ReadLoaded(upload)
    \/ \E upload \in 1..MaxUploads : ReadError(upload)
    \/ \E sampleName \in {SampleName(j) : j \in 1..MaxSamples} : ToggleSample(sampleName)
    \/ \E id \in 1..(2 * MaxUploads) : MessageTimeout(id)

SpecDashboard == InitDashboard /\ [][NextDashboard]_vars

\* A read that was started ends: the FileReader fires load or error.
ReadSettles(upload) == ReadError(upload) \/ ReadLoaded(upload)

SpecDashboardLive ==
    SpecDashboard /\ \A upload \in 1..MaxUploads : WF_vars(ReadSettles(upload))

-----
(* What the claims speak of.                                               *)

DetectDone == pc = "detectTimeFormat done"

ProcessDone == pc = "processTimeValue done"

ParseDone == pc = "parseCSV done"

ParsedOk == ParseDone /\ ~parsed.threw

\* A token that is a decimal integer: one or more digits, nothing else.
IsDecimal(token) == token # <<>> /\ AllDigits(token)

\* The number a decimal token denotes, times 10^zeros.
DecimalTimesPowerOfTen(token, zeros) ==
    Number(FALSE, DigitValues(token) \o [i \in 1..zeros |-> 0], <<>>)

\* The lines of the text given to parseCSV as the parser sees them, each
\* split into trimmed fields: the header, then the data rows.
GivenHeader == SplitTrim(TrimText(csvText)[1])

RowsOf(lines) == [i \in 1..(Len(lines) - 1) |-> SplitTrim(lines[i + 1])]

GivenRows == RowsOf(TrimText(csvText))

\* The text has a header with at least one sample column and a data line.
GivenTable == Len(TrimText(csvText)) >= 2 /\ Len(GivenHeader) >= 2

HasHeaderArity(values) == Len(values) = Len(GivenHeader)

\* The raw time tokens of the rows the returned dataset holds, in order.
ReturnedTokens ==
    [k \in 1..Len(parsed.data.processedTimePoints) |->
        parsed.data.processedTimePoints[k].raw]

TimeTokensOf(rows) == [k \in 1..Len(rows) |-> rows[k][1]]

-----------------------------------------------------------------------------
(* C1: whenever parseCSV returns a dataset from a header whose sample     *)
(* names are pairwise distinct, every sample's series is as long as        *)
(* timePoints.                                                             *)
Distinct(header) ==
    \A i, j \in 2..Len(header) : header[i] = header[j] => i = j

DistinctSampleNames == Distinct(GivenHeader)

SeriesAligned(data) ==
    \A i \in 1..Len(data.samples) :
        Len(data.sampleData[data.samples[i]]) = Len(data.timePoints)

SeriesLengthsEqualTimePoints == SeriesAligned(parsed.data)

C1_SeriesAlignedUnderDistinctNames ==
    (ParsedOk /\ DistinctSampleNames) => SeriesLengthsEqualTimePoints

\* C1 as stated: the same for every header, sample names repeated or not.
C1_SeriesAlignedWithTimePoints == ParsedOk => SeriesLengthsEqualTimePoints

\* A dataset of two distinct samples, with a row skipped and a cell stored
\* as null.
C1_TwoSeriesOneRowSkipped ==
    /\ ParsedOk /\ DistinctSampleNames
    /\ Len(parsed.data.samples) >= 2
    /\ Len(parsed.data.timePoints) >= 1
    /\ Len(GivenRows) > Len(parsed.data.timePoints)
    /\ \E i \in 1..Len(parsed.data.samples) :
            parsed.data.sampleData[parsed.data.samples[i]][1].isNull

-----------------------------------------------------------------------------
(* C2: in a text with a valid header where exactly one data row is         *)
(* malformed (wrong field count or a time token that is not a number), at  *)
(* any position, and the other rows are well formed, parseCSV returns a    *)
(* dataset holding exactly the other rows.                                 *)
WellFormedRow(values) == HasHeaderArity(values) /\ IsDecimal(values[1])

MalformedRowCount ==
    Cardinality({i \in 1..Len(GivenRows) : ~WellFormedRow(GivenRows[i])})

C2_OneMalformedRowNeverBlocks ==
    (ParseDone /\ GivenTable /\ MalformedRowCount = 1 /\ Len(GivenRows) >= 2) =>
        /\ ~parsed.threw
        /\ ReturnedTokens = TimeTokensOf(SelectSeq(GivenRows, WellFormedRow))

-----------------------------------------------------------------------------
(* C3: detectTimeFormat classifies every token of 10 to 12 decimal digits  *)
(* as epoch_seconds.                                                       *)
C3_TenToTwelveDigitsAreEpochSeconds ==
    (DetectDone /\ AllDigits(Trim(timeValue))
        /\ Len(Trim(timeValue)) >= 10 /\ Len(Trim(timeValue)) <= 12) =>
        detected = Returned("epoch_seconds")

-----------------------------------------------------------------------------
(* C4: under epoch_seconds a time token that is a decimal integer n is     *)
(* accepted with numeric = n * 1000, and a text of well-formed             *)
(* epoch-seconds rows parses with one time point per row.                  *)
EpochSecondsRow(values) ==
    HasHeaderArity(values) /\ AllDigits(values[1]) /\ Len(values[1]) \in 10..12
        /\ values[1][1] \notin {"0", "1"}

C4_EpochSecondsAcceptedAndScaled ==
    /\ (ProcessDone /\ format = "epoch_seconds" /\ IsDecimal(Trim(rawValue))) =>
            /\ ~processed.isNull
            /\ processed.numeric = DecimalTimesPowerOfTen(Trim(rawValue), 3)
    /\ (ParseDone /\ GivenTable /\ \A i \in 1..Len(GivenRows) : EpochSecondsRow(GivenRows[i])) =>
            /\ ~parsed.threw
            /\ Len(parsed.data.timePoints) = Len(GivenRows)

-----------------------------------------------------------------------------
(* C5: under epoch_milliseconds a time token that is a decimal integer n   *)
(* is accepted with numeric = n and a display string, and a text of        *)
(* well-formed epoch-milliseconds rows parses with one time point per row. *)
EpochMillisecondsRow(values) ==
    HasHeaderArity(values) /\ AllDigits(values[1]) /\ Len(values[1]) = 13

C5_EpochMillisecondsAccepted ==
    /\ (ProcessDone /\ format = "epoch_milliseconds" /\ IsDecimal(Trim(rawValue))) =>
            /\ ~processed.isNull
            /\ processed.numeric = DecimalTimesPowerOfTen(Trim(rawValue), 0)
            /\ processed.display # <<>>
    /\ (ParseDone /\ GivenTable
            /\ \A i \in 1..Len(GivenRows) : EpochMillisecondsRow(GivenRows[i])) =>
            /\ ~parsed.threw
            /\ Len(parsed.data.timePoints) = Len(GivenRows)

-----------------------------------------------------------------------------
(* C6: under each format a row whose time token fails conversion (not a    *)
(* number where one is required, or not 14 characters under                *)
(* datetime_string) is skipped: the returned dataset holds no such row.    *)
ConversionFails(token, fmt) ==
    IF fmt = "datetime_string" THEN Len(Trim(token)) # 14 ELSE isNaN(parseInt(Trim(token)))

C6_UnconvertibleTimeRowsSkipped ==
    /\ (ProcessDone /\ format \in TimeFormats /\ ConversionFails(rawValue, format)) =>
            processed.isNull
    /\ ParsedOk =>
            \A k \in 1..Len(ReturnedTokens) :
                ~ConversionFails(ReturnedTokens[k], parsed.data.timeFormat)

-----------------------------------------------------------------------------
(* C7: under datetime_string a token YYYYMMDDHHMMSS with in-range fields   *)
(* yields the instant of year YYYY, month MM counted from 1, day DD,       *)
(* HH:MM:SS.                                                               *)
FieldOf(token, start, length) == ToInt(parseInt(Substr(token, start, length)))

InRangeDateTime(token) ==
    /\ Len(token) = 14 /\ AllDigits(token)
    /\ FieldOf(token, 0, 4) >= 1970
    /\ FieldOf(token, 4, 2) \in 1..12
    /\ FieldOf(token, 6, 2) \in 1..28
    /\ FieldOf(token, 8, 2) \in 0..23
    /\ FieldOf(token, 10, 2) \in 0..59
    /\ FieldOf(token, 12, 2) \in 0..59

HumanCalendarInstant(token) ==
    TimeFromDays(
        DaysFromCivil(FieldOf(token, 0, 4), FieldOf(token, 4, 2), FieldOf(token, 6, 2)),
        (FieldOf(token, 8, 2) * 3600 + FieldOf(token, 10, 2) * 60 + FieldOf(token, 12, 2))
            * 1000)

C7_MonthIsOneIndexed ==
    (ProcessDone /\ format = "datetime_string" /\ InRangeDateTime(Trim(rawValue))) =>
        /\ ~processed.isNull
        /\ processed.numeric = HumanCalendarInstant(Trim(rawValue))
        /\ getMonth(processed.date[1]) = FromInt(FieldOf(Trim(rawValue), 4, 2) - 1)

-----------------------------------------------------------------------------
(* C8: detectTimeFormat classifies a token of 13 or more decimal digits as *)
(* datetime_string when it has exactly 14 digits and as epoch_milliseconds *)
(* otherwise (13 digits, 15 or more).                                      *)
C8_ThirteenOrMoreDigits ==
    (DetectDone /\ AllDigits(Trim(timeValue)) /\ Len(Trim(timeValue)) >= 13) =>
        detected = Returned(IF Len(Trim(timeValue)) = 14 THEN "datetime_string"
                            ELSE "epoch_milliseconds")

\* A 14-digit token was classified, and so was a token of another length.
C8_FourteenDigitsDetected ==
    /\ DetectDone
    /\ AllDigits(Trim(timeValue)) /\ Len(Trim(timeValue)) = 14
    /\ detected = Returned("datetime_string")

-----------------------------------------------------------------------------
(* C9: rows whose field count differs from the header's are skipped        *)
(* without an exception: when at least one other row is acceptable,        *)
(* parseCSV returns a dataset holding exactly the rows of the header's     *)
(* field count, wherever the other rows stand.                             *)
SmallInteger(token) == IsDecimal(token) /\ Len(token) <= 9

ArityOrSmallInteger(values) == HasHeaderArity(values) => SmallInteger(values[1])

C9_WrongArityRowsSkippedWithoutAbort ==
    (/\ ParseDone /\ GivenTable
     /\ \A i \in 1..Len(GivenRows) : ArityOrSmallInteger(GivenRows[i])
     /\ \E i \in 1..Len(GivenRows) : HasHeaderArity(GivenRows[i])
     /\ \E i \in 1..Len(GivenRows) : ~HasHeaderArity(GivenRows[i])) =>
        /\ ~parsed.threw
        /\ ReturnedTokens = TimeTokensOf(SelectSeq(GivenRows, HasHeaderArity))

-----------------------------------------------------------------------------
(* C10: in an accepted row of a text whose sample names are pairwise       *)
(* distinct, a sample cell that does not parse as a number is null at that *)
(* row's index in that sample's series, the row's time point is present,   *)
(* and the other cells of the row keep their parsed values.                *)
AllRowsAccepted ==
    ParsedOk /\ GivenTable /\ Len(parsed.data.timePoints) = Len(GivenRows)

SlotAt(j, k) == parsed.data.sampleData[parsed.data.samples[j]][k]

Unparsable(cell) == isNaN(parseFloat(cell))

NullOrValue(value) == IF value.nan THEN NullCell ELSE ValueCell(value)

ExpectedSlot(cell) == NullOrValue(parseFloat(cell))

SlotsAreCells(rows, data) ==
    \A k \in 1..Len(rows) : \A j \in 1..Len(data.samples) :
        /\ k <= Len(data.sampleData[data.samples[j]])
        /\ data.sampleData[data.samples[j]][k] = ExpectedSlot(rows[k][j + 1])

EachSlotIsItsCell == SlotsAreCells(GivenRows, parsed.data)

-----------------------------------------------------------------------------
(* C11: a text with a valid header and at least one data line, every data *)
(* row of which is malformed (wrong field count or a time token that is    *)
(* not a number), fails with 'No valid data rows found' and with no other  *)
(* error.                                                                  *)
EveryRowMalformed == \A i \in 1..Len(GivenRows) : ~WellFormedRow(GivenRows[i])

C11_AllRowsMalformedIsEmptyDataset ==
    (ParseDone /\ GivenTable /\ EveryRowMalformed) =>
        /\ parsed.threw
        /\ parsed.message = "No valid data rows found"

-----------------------------------------------------------------------------
(* C12: a text that has fewer than 2 lines once trimmed (empty, or a       *)
(* header only) fails with 'CSV file must have at least 2 rows', before    *)
(* the header is looked at or a format detected: no dataset is returned    *)
(* and this.timeFormat is as it was.                                       *)
TooFewLines(lines) == Len(lines) < 2

C12_FewerThanTwoLinesIsMalformedTable ==
    (ParseDone /\ TooFewLines(TrimText(csvText))) =>
        /\ parsed.threw
        /\ parsed.message = "CSV file must have at least 2 rows (header + data)"
        /\ parsed.data = NoDataset
        /\ timeFormat = "null"

\* A header without sample columns, followed only by blank lines, was
\* refused for its line count.
C12_HeaderOnlyRefused ==
    /\ ParseDone /\ Len(csvText) > 1 /\ TooFewLines(TrimText(csvText))
    /\ Len(GivenHeader) = 1
    /\ parsed.message = "CSV file must have at least 2 rows (header + data)"

-----------------------------------------------------------------------------
(* C13: a text of at least 2 lines whose header is the time column alone   *)
(* fails with 'No sample columns found in CSV', whatever its data rows     *)
(* hold, an unrecognisable time token included.                            *)
TimeColumnOnly(lines) == Len(lines) >= 2 /\ Len(SplitTrim(lines[1])) = 1

C13_TimeColumnOnlyIsNoSampleColumns ==
    (ParseDone /\ TimeColumnOnly(TrimText(csvText))) =>
        /\ parsed.threw
        /\ parsed.message = "No sample columns found in CSV"
        /\ timeFormat = "null"

\* A time-column-only text whose first data line holds an unrecognisable
\* time token was refused for its missing sample columns.
C13_UnrecognisableTokenUnderBareHeader ==
    /\ ParseDone /\ TimeColumnOnly(TrimText(csvText))
    /\ detectTimeFormat(GivenRows[1][1]).threw
    /\ parsed.message = "No sample columns found in CSV"

-----------------------------------------------------------------------------
(* C15: within one parse the time format is the one detected from field 0  *)
(* of the first data line, whether or not that line has the header's field *)
(* count; it is this.timeFormat afterwards, the timeFormat of the returned *)
(* dataset, and the format under which every returned time point was       *)
(* converted.                                                              *)
ConvertedUnder(data, fmt) ==
    /\ data.timeFormat = fmt
    /\ \A k \in 1..Len(data.processedTimePoints) :
        data.processedTimePoints[k]
            = processTimeValue(data.processedTimePoints[k].raw, fmt)

OneFormat(detection) ==
    IF detection.threw THEN parsed.threw /\ timeFormat = "null"
    ELSE /\ timeFormat = detection.value
         /\ ~parsed.threw => ConvertedUnder(parsed.data, detection.value)

OneFormatIn(lines) ==
    (Len(lines) >= 2 /\ Len(SplitTrim(lines[1])) >= 2) =>
        OneFormat(detectTimeFormat(SplitTrim(lines[2])[1]))

C15_OneFormatFromFirstDataLine == ParseDone => OneFormatIn(TrimText(csvText))

\* The format came from a first data line that was skipped for its field
\* count, and a returned row's own token would have been detected otherwise.
C15_FormatFromSkippedLine ==
    /\ ParsedOk /\ GivenTable
    /\ ~HasHeaderArity(GivenRows[1])
    /\ \E k \in 1..Len(ReturnedTokens) :
        detectTimeFormat(ReturnedTokens[k]) # Returned(parsed.data.timeFormat)

-----------------------------------------------------------------------------
(* C16: the returned timePoints, processedTimePoints and sample series are *)
(* the accepted data rows in file order, equal or decreasing time values   *)
(* included, and timePoints[k] is processedTimePoints[k].numeric.          *)
AcceptedRows(rows, header, fmt) ==
    LET Accepted(values) ==
            Len(values) = Len(header) /\ ~processTimeValue(values[1], fmt).isNull
    IN SelectSeq(rows, Accepted)

\* How many of the sample columns 2..j of the header bear the name of column j.
RankAmongNamesakes(header, j) ==
    Cardinality({i \in 2..j : header[i] = header[j]})

\* How many sample columns of the header bear the name of column j.
Namesakes(header, j) == Cardinality({i \in 2..Len(header) : header[i] = header[j]})

\* The cell of column j of the k-th accepted row is where the row loop put
\* it in the series of the column's name.
SeriesInFileOrder(rows, header, data) ==
    \A k \in 1..Len(rows) : \A j \in 2..Len(header) :
        data.sampleData[header[j]]
            [(k - 1) * Namesakes(header, j) + RankAmongNamesakes(header, j)]
                = ExpectedSlot(rows[k][j])

InFileOrder(rows, header, data) ==
    /\ Len(data.timePoints) = Len(rows)
    /\ Len(data.processedTimePoints) = Len(rows)
    /\ \A k \in 1..Len(rows) :
        /\ data.processedTimePoints[k].raw = rows[k][1]
        /\ data.timePoints[k] = data.processedTimePoints[k].numeric
    /\ \A j \in 2..Len(header) :
        Len(data.sampleData[header[j]]) = Len(rows) * Namesakes(header, j)
    /\ SeriesInFileOrder(rows, header, data)

AcceptedInFileOrder(rows, header, data) ==
    InFileOrder(AcceptedRows(rows, header, data.timeFormat), header, data)

RowsInFileOrder(lines) ==
    AcceptedInFileOrder(RowsOf(lines), SplitTrim(lines[1]), parsed.data)

C16_RowsInFileOrder == ParsedOk => RowsInFileOrder(TrimText(csvText))

\* Two rows were returned whose time values decrease.
C16_DecreasingTimesKept ==
    /\ ParsedOk
    /\ ReturnedTokens = <<PlainTimeToken, IntegerExample>>
    /\ parsed.data.timePoints = <<FromInt(1), FromInt(0)>>

-----------------------------------------------------------------------------
(* What the claims about uploads speak of.                                 *)

\* The step just taken settled an upload: read and parsed, or its read failed.
Settled(status) ==
    /\ pc \in {"reader.onload", "reader.onerror"}
    /\ uploads[event.upload].status = status

\* The reason an upload failed for: of the read, or the message of the parse.
FailureReason == IF pc = "reader.onerror" THEN "Failed to read file" ELSE parsed.message

FatalMessages ==
    {"Failed to read file",
     "CSV file must have at least 2 rows (header + data)",
     "No sample columns found in CSV",
     "Unrecognized time format",
     "No valid data rows found"}

ErrorReported(reason) ==
    /\ reason \in FatalMessages
    /\ \E m \in messages : m.type = "error" /\ m.text = <<"Error loading file: ", reason>>

\* The dataset a fresh dashboard returns for a text.
FreshParse(text) == parseCSV(text, "null")

-----------------------------------------------------------------------------
(* C14: an upload that fails, by its read or by any fatal parse error,     *)
(* shows an error message carrying the reason and leaves parsedData, the   *)
(* chart and visibleSamples as they were; an upload that succeeds replaces *)
(* the dataset by the one parsed from its file, with its chart and all its *)
(* samples visible.                                                        *)
FailureLeavesDataset ==
    Settled("failed")' =>
        /\ ErrorReported(FailureReason)'
        /\ parsedData' = parsedData
        /\ chart' = chart
        /\ visibleSamples' = visibleSamples

SuccessReplacesDataset ==
    Settled("loaded")' =>
        /\ parsedData' = [from |-> event'.upload, data |-> FreshParse(csvText').data]
        /\ chart'.from = event'.upload
        /\ visibleSamples' = Range(parsedData'.data.samples)

C14_FailedUploadKeepsDataset ==
    [][FailureLeavesDataset /\ SuccessReplacesDataset]_vars

\* An upload failed in its parse while an earlier dataset, one of its
\* samples hidden, was on display.
C14_FailureAfterSuccess ==
    /\ pc = "reader.onload" /\ Settled("failed")
    /\ parsedData.from # 0
    /\ visibleSamples # Range(parsedData.data.samples)
    /\ chart.from = parsedData.from

-----------------------------------------------------------------------------
(* C17: the outcome of each parse, dataset or error, is the one a fresh    *)
(* dashboard gives for the same text, whatever was parsed before on this   *)
(* dashboard and whatever this.timeFormat that left behind.                *)
SameOutcome(a, b) ==
    /\ a.threw = b.threw
    /\ a.message = b.message
    /\ a.data = b.data

C17_ParseIgnoresHistory ==
    pc = "reader.onload" => SameOutcome(parsed, FreshParse(csvText))

\* A text was parsed as integer after a parse that left datetime_string in
\* this.timeFormat.
C17_ParsedAfterAnotherFormat ==
    /\ Len(uploads) = 2
    /\ uploads[1] = [file |-> OneSampleFile, status |-> "loaded"]
    /\ uploads[2] = [file |-> TwoSamplesFile, status |-> "loaded"]
    /\ parsedData.from = 2
    /\ ~parsed.threw /\ parsed.data.timeFormat = "integer"

-----------------------------------------------------------------------------
(* C18: in every state parsedData, visibleSamples and the chart's datasets *)
(* come from one and the same upload, whose file was read and parsed in    *)
(* full, however uploads, read completions and toggles interleave.         *)
ChartOf(data, ch) ==
    /\ Len(ch.datasets) = Len(data.samples)
    /\ \A i \in 1..Len(data.samples) :
        /\ ch.datasets[i].label = data.samples[i]
        /\ ch.datasets[i].data = ChartDataset(data, data.samples[i], {}).data

FromOneUpload(held) ==
    IF held.from = 0
    THEN chart = NoChart /\ visibleSamples = {} /\ sampleToggles = <<>>
    ELSE /\ uploads[held.from].status = "loaded"
         /\ held.data = FreshParse(uploads[held.from].file).data
         /\ chart.from = held.from
         /\ ChartOf(held.data, chart)
         /\ sampleToggles = held.data.samples
         /\ visibleSamples \subseteq Range(held.data.samples)

C18_DatasetAndChartFromOneUpload == FromOneUpload(parsedData)

\* A dataset is on display while an upload begun before it is still reading.
C18_LoadedWhileEarlierReads ==
    /\ Len(uploads) = 2
    /\ uploads[1].status = "reading"
    /\ parsedData.from = 2 /\ chart.from = 2

-----------------------------------------------------------------------------
(* C19: when two uploads both read and parse successfully, the dataset     *)
(* held and rendered once both are complete is that of the upload begun    *)
(* last, in whichever order the two reads complete.                        *)
C19_LastBegunUploadWins ==
    (Len(uploads) = 2 /\ uploads[1].status = "loaded" /\ uploads[2].status = "loaded") =>
        parsedData.from = 2 /\ chart.from = 2

-----------------------------------------------------------------------------
(* C20: whenever a chart exists, visibleSamples is a subset of the current *)
(* dataset's sample names and dataset i of the chart is hidden exactly     *)
(* when samples[i] is not visible; right after a successful upload every   *)
(* sample is visible; toggleSample(s) flips the visibility of s and of no  *)
(* other sample.                                                           *)
HiddenIffNotVisible(ch, data, visible) ==
    /\ visible \subseteq Range(data.samples)
    /\ Len(ch.datasets) = Len(data.samples)
    /\ \A i \in 1..Len(data.samples) :
        ch.datasets[i].hidden <=> data.samples[i] \notin visible

VisibilityConsistent ==
    /\ chart # NoChart => HiddenIffNotVisible(chart, parsedData.data, visibleSamples)
    /\ Settled("loaded") => visibleSamples = Range(parsedData.data.samples)

ToggleFlipsOne ==
    (pc' = "toggleSample") =>
        \A name \in Range(parsedData.data.samples) :
            (name \in visibleSamples') <=> ((name = event'.sampleName) # (name \in visibleSamples))

C20_VisibilityMatchesChart == []VisibilityConsistent /\ [][ToggleFlipsOne]_vars

\* One sample of two was toggled off and its dataset alone is hidden.
C20_OneOfTwoHidden ==
    /\ pc = "toggleSample"
    /\ Len(chart.datasets) = 2
    /\ chart.datasets[1].hidden /\ ~chart.datasets[2].hidden
    /\ visibleSamples = {parsedData.data.samples[2]}

-----------------------------------------------------------------------------
(* C21: at every moment at most one message is displayed, and it is the    *)
(* one shown last; every upload shows the 'Loading' message when it begins *)
(* and then, when its read settles, exactly one success or error message;  *)
(* the auto-hide timer of a success message removes that message only,     *)
(* never one shown after it.                                               *)
SettledUploads == {id \in 1..Len(uploads) : uploads[id].status # "reading"}

OneMessageTheLatest ==
    /\ Cardinality(messages) <= 1
    /\ \A m \in messages : m.id = shown
    /\ shown = Len(uploads) + Cardinality(SettledUploads)

UploadShowsLoading ==
    (pc' = "handleFileUpload") =>
        messages' = {[id |-> shown + 1, type |-> "info", text |-> <<"Loading CSV file...">>]}

SettlingShowsOneResult ==
    (Settled("loaded")' \/ Settled("failed")') =>
        /\ shown' = shown + 1
        /\ \E m \in messages' :
            /\ messages' = {m}
            /\ m.id = shown + 1
            /\ m.type = IF Settled("loaded")' THEN "success" ELSE "error"

TimerRemovesItsOwnMessage ==
    (pc' = "setTimeout callback") =>
        /\ messages' = {m \in messages : m.id # event'.timer}
        /\ \A m \in messages \ messages' : m.type = "success"

\* No read stays pending for ever: again and again every upload begun so far
\* has its result (an upload that is read was begun, and is not read again).
EveryReadSettles == []<>(Reading = {})

C21_OneMessageAndOwnTimer ==
    /\ []OneMessageTheLatest
    /\ [][UploadShowsLoading /\ SettlingShowsOneResult /\ TimerRemovesItsOwnMessage]_vars
    /\ EveryReadSettles

\* The timer of an earlier success message fired while a later message was
\* displayed, and that message is still there.
C21_LaterMessageSurvivesTimer ==
    /\ pc = "setTimeout callback"
    /\ event.timer < shown
    /\ \E m \in messages : m.id = shown /\ m.type = "error"

====
